---- MODULE Spec2Model ----
(***************************************************************************)
(* Newsletter subscription service: the HTTP adapter (flask_server.py),    *)
(* the Event adapter (lambda_function.py) and the two subscriber stores    *)
(* (storage.py), modelled as concurrent requests over a shared store.      *)
(* A request is one run of a handler; the two storage calls of a handler   *)
(* are the points where other requests may interleave.                     *)
(***************************************************************************)
EXTENDS Integers, Sequences, FiniteSets, TLC

\* Number of requests of one run of the model.
NumRequests == 2

Requests == 1..NumRequests

(***************************************************************************)
(* Strings are sequences of one-character strings, so that lower(),        *)
(* strip() and the regular expression are computed character by character. *)
(***************************************************************************)
LowerSeq == << "a","b","c","d","e","f","g","h","i","j","k","l","m",
               "n","o","p","q","r","s","t","u","v","w","x","y","z" >>

UpperSeq == << "A","B","C","D","E","F","G","H","I","J","K","L","M",
               "N","O","P","Q","R","S","T","U","V","W","X","Y","Z" >>

DigitSeq == << "0","1","2","3","4","5","6","7","8","9" >>

Range(s) == { s[i] : i \in DOMAIN s }

Alpha == Range(LowerSeq) \cup Range(UpperSeq)

Whitespace == { " ", "\t", "\n", "\r" }

\* the lower-case letter of each upper-case letter
LowerOf ==
  [ c \in Range(UpperSeq) |-> LowerSeq[CHOOSE i \in DOMAIN UpperSeq : UpperSeq[i] = c] ]

\* str.lower(), one character
LowerChar(c) == IF c \in DOMAIN LowerOf THEN LowerOf[c] ELSE c

\* str.lower()
Lower(s) == [ i \in DOMAIN s |-> LowerChar(s[i]) ]

\* str.strip(): drop leading and trailing whitespace
Strip(s) ==
  LET keep == { i \in DOMAIN s : s[i] \notin Whitespace }
  IN  IF keep = {} THEN << >>
      ELSE LET lo == CHOOSE i \in keep : \A j \in keep : i <= j
               hi == CHOOSE i \in keep : \A j \in keep : j <= i
           IN  SubSeq(s, lo, hi)

\* email.lower().strip(), the key both stores use
Normalize(email) == Strip(Lower(email))

\* character classes of the pattern in is_valid_email
LocalChars == Alpha \cup Range(DigitSeq) \cup { ".", "_", "%", "+", "-" }

DomainChars == Alpha \cup Range(DigitSeq) \cup { ".", "-" }

AllIn(s, lo, hi, class) == \A k \in lo..hi : s[k] \in class

\* ^[a-zA-Z0-9._%+-]+@[a-zA-Z0-9.-]+\.[a-zA-Z]{2,}\Z on s
FullMatch(s) ==
  \E i \in DOMAIN s : \E j \in DOMAIN s :
     /\ s[i] = "@"
     /\ s[j] = "."
     /\ 1 < i
     /\ i + 1 < j
     /\ j + 2 <= Len(s)
     /\ AllIn(s, 1, i - 1, LocalChars)
     /\ AllIn(s, i + 1, j - 1, DomainChars)
     /\ AllIn(s, j + 1, Len(s), Alpha)

\* re.match(pattern, email) is not None; "$" also matches before a final newline
is_valid_email(email) ==
  \/ FullMatch(email)
  \/ /\ Len(email) > 0
     /\ email[Len(email)] = "\n"
     /\ FullMatch(SubSeq(email, 1, Len(email) - 1))

(***************************************************************************)
(* Sample email strings of the requests.                                   *)
(***************************************************************************)
EmailPlain == << "a","@","b",".","c","o" >>

EmailPadded == << " "," ","A","@","B",".","c","o"," " >>

EmailOther == << "c","@","b",".","c","o" >>

EmailNoTld == << "a","@","b" >>

EmailBlank == << " " >>

Emails == { EmailPlain, EmailPadded, EmailOther, EmailNoTld, EmailBlank }

(***************************************************************************)
(* JSON values a request body can parse to.  t is the type of the value;   *)
(* for an object, has tells whether the key "email" is present, vt is the  *)
(* type of its value and v the value when it is a string.                  *)
(***************************************************************************)
JValue(t) == [ t |-> t, has |-> FALSE, vt |-> "none", v |-> << >> ]

JObject(vt, v) == [ t |-> "dict", has |-> TRUE, vt |-> vt, v |-> v ]

Bodies ==
  { JValue("null"), JValue("list"), JValue("num"), JValue("str"), JValue("dict"),
    JObject("null", << >>), JObject("num", << >>) }
  \cup { JObject("str", e) : e \in Emails }

\* json_data of a request that returned before assigning it
Unset == JValue("unset")

(***************************************************************************)
(* Responses.  Both adapters send a status and a JSON-encoded body; the    *)
(* encoding is a tagged value that Decode undoes.                          *)
(***************************************************************************)
ErrorBody(text) == [ kind |-> "error", success |-> FALSE, text |-> text ]

SuccessBody(text) == [ kind |-> "message", success |-> TRUE, text |-> text ]

\* json.dumps / jsonify
Encode(body) == << "json", body >>

Decode(text) == text[2]

\* flask: return jsonify(body), status
jsonify(body, status) ==
  [ statusCode |-> status,
    headers |-> { << "Content-Type", "application/json" >> },
    body |-> Encode(body) ]

\* lambda: format_response(body, status_code)
format_response(body, status_code) ==
  [ statusCode |-> status_code,
    headers |-> { << "Content-Type", "application/json" >>,
                  << "Access-Control-Allow-Origin", "*" >> },
    body |-> Encode(body) ]

\* no response yet (the handler is still running)
Pending == [ statusCode |-> 0, headers |-> {}, body |-> Encode(ErrorBody("pending")) ]

\* the view function fell off its end and returned None: Flask has no
\* response to send and raises TypeError out of the view
ReturnedNone == [ statusCode |-> 0, headers |-> {}, body |-> Encode(ErrorBody("None")) ]

MsgAlready == "You are already subscribed to the newsletter"

MsgSubscribed == "Successfully subscribed to the newsletter"

MsgFailed == "Failed to process subscription"

(***************************************************************************)
(* Validation of the parsed body, as each handler writes it.  The result   *)
(* is "ok" or the text of the 400 response.                                *)
(***************************************************************************)
\* variant: the type of the email is checked before its presence
HttpValidateTypeFirst(data) ==
  IF data.t # "dict" THEN "Request body must be a JSON object"
  ELSE IF data.vt # "str" THEN "Email must be a string"
  ELSE IF ~data.has THEN "Missing required field: email"
  ELSE IF ~is_valid_email(Strip(data.v)) THEN "Invalid email format"
  ELSE "ok"

HttpValidate(data) ==
  IF data.t # "dict" THEN "Request body must be a JSON object"
  ELSE IF ~data.has THEN "Missing required field: email"
  ELSE IF data.vt # "str" THEN "Email must be a string"
  ELSE IF ~is_valid_email(Strip(data.v)) THEN "Invalid email format"
  ELSE "ok"

\* variant: the format of the email is not checked
EventValidateNoFormat(data) ==
  IF data.t # "dict" THEN "Request body must be a JSON object"
  ELSE IF ~data.has THEN "Missing required field: email"
  ELSE IF data.vt # "str" THEN "Email must be a string"
  ELSE "ok"

EventValidate(data) ==
  IF data.t # "dict" THEN "Request body must be a JSON object"
  ELSE IF ~data.has THEN "Missing required field: email"
  ELSE IF data.vt # "str" THEN "Email must be a string"
  ELSE IF ~is_valid_email(Strip(data.v)) THEN "Invalid email format"
  ELSE "ok"

(***************************************************************************)
(* State.                                                                  *)
(***************************************************************************)
VARIABLES
  storeKind,    \* STORAGE_TYPE: "memory" or "dynamodb"
  table,        \* the DynamoDB table: a set of items, keyed by id
  subscribers,  \* InMemoryStorage.subscribers of each adapter's process
  nextId,       \* source of fresh uuid4 values
  now,          \* datetime.utcnow(): the last reading of the clock
  pc,           \* where each request is in its handler
  adapter,      \* "http" or "event"
  json_data,    \* the parsed body of each request
  resp,         \* what the handler returned
  isSubRes,     \* what storage.is_subscribed returned to the request
  addRes,       \* what storage.add_subscriber returned to the request
  calls,        \* history: storage calls and storage writes of each request
  storageErr,   \* history: table.scan / table.put_item of the request raised
  before        \* history: the requests that had returned when this one arrived

vars == << storeKind, table, subscribers, nextId, now, pc, adapter, json_data,
           resp, isSubRes, addRes, calls, storageErr, before >>

Adapters == { "http", "event" }

Init ==
  /\ storeKind \in { "memory", "dynamodb" }
  /\ table = {}
  /\ subscribers = [ a \in Adapters |-> << >> ]
  /\ nextId = 1
  /\ now = 0
  /\ pc = [ r \in Requests |-> "idle" ]
  /\ adapter = [ r \in Requests |-> "http" ]
  /\ json_data = [ r \in Requests |-> Unset ]
  /\ resp = [ r \in Requests |-> Pending ]
  /\ isSubRes = [ r \in Requests |-> "none" ]
  /\ addRes = [ r \in Requests |-> "none" ]
  /\ calls = [ r \in Requests |-> [ is |-> 0, add |-> 0, writes |-> 0 ] ]
  /\ storageErr = [ r \in Requests |-> [ scan |-> FALSE, put |-> FALSE ] ]
  /\ before = [ r \in Requests |-> {} ]

(***************************************************************************)
(* The stores.  A storage call returns "true", "false" or "raise".         *)
(***************************************************************************)
Record(id, at) == [ id |-> id, subscribed_at |-> at, status |-> "active" ]

Item(id, email, at) ==
  [ id |-> id, email |-> email, subscribed_at |-> at, status |-> "active" ]

\* variant: the lookup uses the email as given, not normalized
MemIsSubscribedRaw(dict, email) ==
  IF email \in DOMAIN dict THEN "true" ELSE "false"

\* InMemoryStorage.is_subscribed
MemIsSubscribed(dict, email) ==
  IF Normalize(email) \in DOMAIN dict THEN "true" ELSE "false"

\* InMemoryStorage.add_subscriber: self.subscribers[email] = {...}
MemPut(dict, email, id, at) ==
  LET key == Normalize(email)
  IN  [ k \in DOMAIN dict \cup { key } |-> IF k = key THEN Record(id, at) ELSE dict[k] ]

\* InMemoryStorage.add_subscriber: its return value
MemAddResult == "true"

\* variant: a failing scan propagates to the caller
DynIsSubscribedRaises(tbl, email, scanFails) ==
  IF scanFails THEN "raise"
  ELSE IF { it \in tbl : it.email = Normalize(email) } # {} THEN "true"
  ELSE "false"

\* DynamoDBStorage.is_subscribed; scanFails: table.scan raised
DynIsSubscribed(tbl, email, scanFails) ==
  IF scanFails THEN "false"
  ELSE IF { it \in tbl : it.email = Normalize(email) } # {} THEN "true"
  ELSE "false"

\* DynamoDBStorage.add_subscriber: the table after it; putFails: put_item raised
DynPut(tbl, email, id, at, putFails) ==
  IF putFails THEN tbl ELSE tbl \cup { Item(id, Normalize(email), at) }

\* DynamoDBStorage.add_subscriber: its return value
DynAddResult(putFails) == IF putFails THEN "false" ELSE "true"

(***************************************************************************)
(* What each handler does with the result of a storage call: the next      *)
(* position of the request and, when it returns, the response.             *)
(***************************************************************************)
Step(next, response) == [ pc |-> next, resp |-> response ]

\* variant: the already-subscribed branch does not return
HttpAfterCheckFallsThrough(result) ==
  CASE result = "true"  -> Step("add", Pending)
    [] result = "false" -> Step("add", Pending)
    [] OTHER            -> Step("done", jsonify(ErrorBody(MsgFailed), 500))

HttpAfterCheck(result) ==
  CASE result = "true"  -> Step("done", jsonify(SuccessBody(MsgAlready), 200))
    [] result = "false" -> Step("add", Pending)
    [] OTHER            -> Step("done", jsonify(ErrorBody(MsgFailed), 500))

HttpAfterAdd(result) ==
  CASE result = "true"  -> Step("done", jsonify(SuccessBody(MsgSubscribed), 201))
    [] result = "false" -> Step("done", ReturnedNone)
    [] OTHER            -> Step("done", jsonify(ErrorBody(MsgFailed), 500))

EventAfterCheck(result) ==
  CASE result = "true"  -> Step("done", format_response(SuccessBody(MsgAlready), 200))
    [] result = "false" -> Step("add", Pending)
    [] OTHER            -> Step("done", format_response(ErrorBody(MsgFailed), 500))

EventAfterAdd(result) ==
  CASE result = "true"  -> Step("done", format_response(SuccessBody(MsgSubscribed), 201))
    [] result = "false" -> Step("done", format_response(ErrorBody(MsgFailed), 500))
    [] OTHER            -> Step("done", format_response(ErrorBody(MsgFailed), 500))

AfterCheck(a, result) ==
  IF a = "http" THEN HttpAfterCheck(result) ELSE EventAfterCheck(result)

AfterAdd(a, result) ==
  IF a = "http" THEN HttpAfterAdd(result) ELSE EventAfterAdd(result)

(***************************************************************************)
(* Actions.                                                                *)
(***************************************************************************)
\* requests are numbered in the order they arrive
Arrives(r) ==
  /\ pc[r] = "idle"
  /\ r > 1 => pc[r - 1] # "idle"

Returned == { q \in Requests : pc[q] = "done" }

\* the request returns `response` before any storage call
Reject(r, a, data, response) ==
  /\ pc' = [ pc EXCEPT ![r] = "done" ]
  /\ adapter' = [ adapter EXCEPT ![r] = a ]
  /\ json_data' = [ json_data EXCEPT ![r] = data ]
  /\ resp' = [ resp EXCEPT ![r] = response ]
  /\ before' = [ before EXCEPT ![r] = Returned ]

\* the request passed validation and goes on to the storage calls
Accept(r, a, data) ==
  /\ pc' = [ pc EXCEPT ![r] = "check" ]
  /\ adapter' = [ adapter EXCEPT ![r] = a ]
  /\ json_data' = [ json_data EXCEPT ![r] = data ]
  /\ resp' = resp
  /\ before' = [ before EXCEPT ![r] = Returned ]

\* subscribe_newsletter, up to the storage calls
HttpReceive(r) ==
  /\ Arrives(r)
  /\ \/ \* not request.is_json
        Reject(r, "http", Unset,
               jsonify(ErrorBody("Content-Type must be application/json"), 415))
     \/ \* request.get_json() raises BadRequest
        Reject(r, "http", Unset, jsonify(ErrorBody("Invalid JSON format"), 400))
     \/ \E data \in Bodies :
          LET verdict == HttpValidate(data)
          IN  IF verdict # "ok"
              THEN Reject(r, "http", data, jsonify(ErrorBody(verdict), 400))
              ELSE Accept(r, "http", data)
  /\ UNCHANGED << storeKind, table, subscribers, nextId, now, isSubRes, addRes,
                  calls, storageErr >>

\* An in-memory store lives in one process.  A Lambda execution environment
\* handles one invocation at a time, so invocations sharing the dictionary
\* do not overlap.
EventMayRun(r) ==
  storeKind = "memory" =>
    \A q \in Requests \ { r } : adapter[q] = "event" => pc[q] \in { "idle", "done" }

\* the values json_data can take for each shape of the event: 'body' holding
\* a JSON text, 'body' holding a value that is neither None nor a string, and
\* no 'body' key (the event itself is the data)
EventData(shape) ==
  CASE shape = "body_str"   -> Bodies
    [] shape = "body_value" -> { d \in Bodies : d.t \notin { "null", "str" } }
    [] shape = "direct"     -> { d \in Bodies : d.t = "dict" }

EventShapes == { "body_str", "body_value", "direct" }

\* lambda_handler, up to the storage calls
EventReceive(r) ==
  /\ Arrives(r)
  /\ EventMayRun(r)
  /\ \/ \* event['body'] is None
        Reject(r, "event", Unset,
               format_response(ErrorBody("Request body is required"), 400))
     \/ \* json.loads(event['body']) raises JSONDecodeError
        Reject(r, "event", Unset,
               format_response(ErrorBody("Invalid JSON format"), 400))
     \/ \E shape \in EventShapes : \E data \in EventData(shape) :
          LET verdict == EventValidate(data)
          IN  IF verdict # "ok"
              THEN Reject(r, "event", data, format_response(ErrorBody(verdict), 400))
              ELSE Accept(r, "event", data)
  /\ UNCHANGED << storeKind, table, subscribers, nextId, now, isSubRes, addRes,
                  calls, storageErr >>

\* storage.is_subscribed(email) as the store of the request's adapter answers it
IsSubscribedCall(r, scanFails) ==
  IF storeKind = "memory"
  THEN MemIsSubscribed(subscribers[adapter[r]], json_data[r].v)
  ELSE DynIsSubscribed(table, json_data[r].v, scanFails)

\* the handler's `if storage.is_subscribed(email)`
CheckExisting(r) ==
  /\ pc[r] = "check"
  /\ \E scanFails \in BOOLEAN :
       /\ scanFails => storeKind = "dynamodb"
       /\ LET result == IsSubscribedCall(r, scanFails)
              step == AfterCheck(adapter[r], result)
          IN  /\ isSubRes' = [ isSubRes EXCEPT ![r] = result ]
              /\ pc' = [ pc EXCEPT ![r] = step.pc ]
              /\ resp' = [ resp EXCEPT ![r] = step.resp ]
              /\ storageErr' = [ storageErr EXCEPT ![r].scan = scanFails ]
  /\ calls' = [ calls EXCEPT ![r].is = @ + 1 ]
  /\ UNCHANGED << storeKind, table, subscribers, nextId, now, adapter, json_data,
                  addRes, before >>

\* the handler's `if storage.add_subscriber(email)`
Insert(r) ==
  /\ pc[r] = "add"
  /\ \E putFails \in BOOLEAN :
       /\ putFails => storeKind = "dynamodb"
       /\ LET email == json_data[r].v
              at == now + 1
              result == IF storeKind = "memory" THEN MemAddResult
                        ELSE DynAddResult(putFails)
              step == AfterAdd(adapter[r], result)
          IN  /\ now' = at
              /\ IF storeKind = "memory"
                 THEN /\ subscribers' =
                           [ subscribers EXCEPT ![adapter[r]] = MemPut(@, email, nextId, at) ]
                      /\ table' = table
                 ELSE /\ table' = DynPut(table, email, nextId, at, putFails)
                      /\ subscribers' = subscribers
              /\ addRes' = [ addRes EXCEPT ![r] = result ]
              /\ pc' = [ pc EXCEPT ![r] = step.pc ]
              /\ resp' = [ resp EXCEPT ![r] = step.resp ]
              /\ storageErr' = [ storageErr EXCEPT ![r].put = putFails ]
  /\ nextId' = nextId + 1
  /\ calls' = [ calls EXCEPT ![r].add = @ + 1,
                             ![r].writes = IF table' # table \/ subscribers' # subscribers
                                           THEN @ + 1 ELSE @ ]
  /\ UNCHANGED << storeKind, adapter, json_data, isSubRes, before >>

Next ==
  \E r \in Requests :
    \/ HttpReceive(r)
    \/ EventReceive(r)
    \/ CheckExisting(r)
    \/ Insert(r)

Spec == Init /\ [][Next]_vars

(***************************************************************************)
(* Vocabulary of the properties.                                           *)
(***************************************************************************)
Status(r) == resp[r].statusCode

Body(r) == Decode(resp[r].body)

\* the request passed validation: it is at, or went through, the storage calls
Passed(r) == pc[r] \in { "check", "add" } \/ calls[r].is > 0

\* the normalized form of each sample email
KeyOf == [ e \in Emails |-> Normalize(e) ]

\* the normalized email of a request that passed validation
Key(r) == KeyOf[json_data[r].v]

\* the sample emails that match the email grammar once trimmed
WellFormed == { e \in Emails : is_valid_email(Strip(e)) }

\* the two requests talk to the same store
SameStore(q, r) == storeKind = "dynamodb" \/ adapter[q] = adapter[r]

\* number of records the store of request r holds for the normalized email e
Count(r, e) ==
  IF storeKind = "memory"
  THEN IF e \in DOMAIN subscribers[adapter[r]] THEN 1 ELSE 0
  ELSE Cardinality({ it \in table : it.email = e })

\* the requests that passed validation with the email of q, on the store of q
Users(q) == { x \in Requests : Passed(x) /\ Key(x) = Key(q) /\ SameStore(x, q) }

NoStorageError(r) == ~storageErr[r].scan /\ ~storageErr[r].put

Keys == { KeyOf[e] : e \in Emails }

(***************************************************************************)
(* Properties.                                                             *)
(***************************************************************************)

\* C1: in every reachable state the store holds at most one record for any
\* normalized email, whichever adapter and store handled the requests.
C1_AtMostOneRecord ==
  /\ \A e \in Keys : Cardinality({ it \in table : it.email = e }) <= 1
  /\ \A a \in Adapters : \A k \in DOMAIN subscribers[a] : k = Normalize(k)

\* C2: two requests with the same normalized email, the second arriving after
\* the first has returned, on the same store and with no storage error, and no
\* other request for that email: the first answers 201 subscribed, the second
\* 200 already subscribed, and the store holds exactly one record for the email.
C2_SequentialIdempotent ==
  \A q \in Requests : \A r \in Requests :
    ( /\ pc[r] = "done"
      /\ q \in before[r]
      /\ Passed(q) /\ Passed(r)
      /\ Key(q) = Key(r)
      /\ SameStore(q, r)
      /\ NoStorageError(q) /\ NoStorageError(r)
      /\ Users(q) = { q, r } )
    => /\ Status(q) = 201 /\ Body(q) = SuccessBody(MsgSubscribed)
       /\ Status(r) = 200 /\ Body(r) = SuccessBody(MsgAlready)
       /\ Count(q, Key(q)) = 1

\* C2 witness: a sequential pair on the same email has returned, without error.
C2_Witness ==
  \E q \in Requests : \E r \in Requests :
    /\ pc[r] = "done" /\ q \in before[r] /\ Passed(q) /\ Passed(r)
    /\ Key(q) = Key(r) /\ SameStore(q, r)
    /\ NoStorageError(q) /\ NoStorageError(r) /\ Users(q) = { q, r }
    /\ json_data[q].v # json_data[r].v

\* C3: whenever the storage calls fail the subscription (add_subscriber
\* returned false, or a storage call raised), the request is answered with
\* status 500 and body {"error": "Failed to process subscription"}.
C3_StorageFailureIs500 ==
  \A r \in Requests :
    ( /\ pc[r] = "done"
      /\ addRes[r] \in { "false", "raise" } \/ isSubRes[r] = "raise" )
    => /\ Status(r) = 500
       /\ Body(r) = ErrorBody(MsgFailed)

\* C4: once a request has subscribed an email, a later request on the same
\* store whose email differs from it only in case and surrounding whitespace
\* answers already subscribed and adds no record.
C4_SameSubscriber ==
  \A q \in Requests : \A r \in Requests :
    ( /\ pc[r] = "done"
      /\ q \in before[r]
      /\ Passed(q) /\ Passed(r)
      /\ Status(q) = 201
      /\ json_data[q].v # json_data[r].v
      /\ Key(q) = Key(r)
      /\ SameStore(q, r) )
    => /\ Status(r) = 200 /\ Body(r) = SuccessBody(MsgAlready)
       /\ calls[r].add = 0
       /\ calls[r].writes = 0

\* C5: a stored record is never removed and its id and subscribed_at never
\* change, in any step of any interleaving of requests.
C5_RecordsImmutable ==
  [][ /\ \A it \in table : it \in table'
      /\ \A a \in Adapters : \A k \in DOMAIN subscribers[a] :
           /\ k \in DOMAIN subscribers'[a]
           /\ subscribers'[a][k].id = subscribers[a][k].id
           /\ subscribers'[a][k].subscribed_at = subscribers[a][k].subscribed_at
    ]_vars

\* C6: a request calls add_subscriber at most once, and only after its one
\* is_subscribed call returned false; a request that saw is_subscribed = false
\* has made exactly one add_subscriber call when it returns; a request answered
\* already subscribed (200) or with a client error (400, 415) made no
\* add_subscriber call and wrote nothing.
C6_OneAddAfterNegativeCheck ==
  \A r \in Requests :
    /\ calls[r].add <= 1
    /\ calls[r].writes <= calls[r].add
    /\ calls[r].add > 0 => calls[r].is = 1 /\ isSubRes[r] = "false"
    /\ (pc[r] = "done" /\ isSubRes[r] = "false") => calls[r].add = 1
    /\ (pc[r] = "done" /\ Status(r) \in { 200, 400, 415 })
         => calls[r].add = 0 /\ calls[r].writes = 0

\* C6 witness: one request returned already subscribed without an
\* add_subscriber call, another returned after exactly one.
C6_Witness ==
  \E q \in Requests : \E r \in Requests :
    /\ pc[q] = "done" /\ isSubRes[q] = "false" /\ calls[q].add = 1
    /\ pc[r] = "done" /\ Status(r) = 200 /\ calls[r].is = 1 /\ calls[r].add = 0

\* the request is a client input error: wrong content type, malformed JSON,
\* null event body, a body that is no object, no email, an email that is no
\* string, or an email of invalid format
ClientError(r) ==
  \/ json_data[r] = Unset
  \/ json_data[r].t # "dict"
  \/ ~json_data[r].has
  \/ json_data[r].vt # "str"
  \/ json_data[r].v \notin WellFormed

StoreUntouched == table' = table /\ subscribers' = subscribers

\* C7: a request that is a client input error is answered 400 or 415 without
\* any is_subscribed or add_subscriber call, and the step that answers it
\* leaves the store's contents unchanged.
C7_ClientErrorsNeverTouchStorage ==
  /\ [] ( \A r \in Requests :
            (pc[r] # "idle" /\ ClientError(r))
              => /\ pc[r] = "done"
                 /\ Status(r) \in { 400, 415 }
                 /\ calls[r] = [ is |-> 0, add |-> 0, writes |-> 0 ]
                 /\ isSubRes[r] = "none" /\ addRes[r] = "none" )
  /\ [][ \A r \in Requests :
           (pc[r] = "idle" /\ pc'[r] = "done") => StoreUntouched ]_vars

\* C7 witness: a request with an email of invalid format was rejected while
\* the store already held a record.
C7_Witness ==
  \E r \in Requests :
    /\ pc[r] = "done"
    /\ json_data[r] # Unset /\ json_data[r].vt = "str"
    /\ json_data[r].v \notin WellFormed
    /\ Status(r) = 400
    /\ table # {} \/ \E a \in Adapters : DOMAIN subscribers[a] # {}

\* C8: in the Durable Store a failing scan makes is_subscribed return false
\* (it never raises), so the request goes on to call add_subscriber, also
\* when the table already holds a record for the email.
C8_IsSubscribedFailsClosed ==
  \A r \in Requests :
    storageErr[r].scan
      => /\ storeKind = "dynamodb"
         /\ isSubRes[r] = "false"
         /\ pc[r] \in { "add", "done" }
         /\ pc[r] = "done" => calls[r].add = 1

\* C8 witness: a request whose scan failed has inserted a second record for
\* an email that was already stored.
C8_Witness ==
  \E r \in Requests :
    /\ storageErr[r].scan
    /\ pc[r] = "done" /\ addRes[r] = "true"
    /\ Count(r, Key(r)) = 2

\* C9: an HTTP request and an Event request with the same parsed body that
\* got the same answers from the store return the same status and the same
\* decoded body.
C9_AdaptersAgree ==
  \A q \in Requests : \A r \in Requests :
    ( /\ pc[q] = "done" /\ pc[r] = "done"
      /\ adapter[q] = "http" /\ adapter[r] = "event"
      /\ json_data[q] # Unset
      /\ json_data[q] = json_data[r]
      /\ isSubRes[q] = isSubRes[r]
      /\ addRes[q] = addRes[r] )
    => /\ Status(q) = Status(r)
       /\ Body(q) = Body(r)

Rejected(r, text) ==
  /\ pc[r] = "done"
  /\ Status(r) = 400
  /\ Body(r) = ErrorBody(text)
  /\ calls[r].is = 0

\* C10: validation of a parsed body names the first defect in a fixed order:
\* not an object, then missing email, then email not a string, then invalid
\* format; a request reaches the store exactly when it passes all four checks.
C10_ValidationOrder ==
  \A r \in Requests :
    (pc[r] # "idle" /\ json_data[r] # Unset) =>
      LET d == json_data[r]
      IN  IF d.t # "dict" THEN Rejected(r, "Request body must be a JSON object")
          ELSE IF ~d.has THEN Rejected(r, "Missing required field: email")
          ELSE IF d.vt # "str" THEN Rejected(r, "Email must be a string")
          ELSE IF d.v \notin WellFormed THEN Rejected(r, "Invalid email format")
          ELSE Passed(r)

\* C10 witness: requests of both adapters were rejected for an email that is
\* not a string, one with a number and one with null.
C10_Witness ==
  \E q \in Requests : \E r \in Requests :
    /\ adapter[q] = "http" /\ adapter[r] = "event"
    /\ json_data[q] = JObject("num", << >>) /\ json_data[r] = JObject("null", << >>)
    /\ Rejected(q, "Email must be a string")
    /\ Rejected(r, "Email must be a string")

====
